---- MODULE Spec2Model ----
(***************************************************************************)
(* folder_scanner.py: the recursive ASCII tree renderer build_ascii_tree   *)
(* and the three Tk handlers browse_folder, scan_and_display and           *)
(* save_to_file that drive it.                                             *)
(*                                                                         *)
(* A Python str is modelled as the sequence of its Unicode codepoints, so  *)
(* that sorting, joining, os.path.join / basename and rstrip are computed  *)
(* on characters.  The file system is a finite map from absolute paths to  *)
(* entries; build_ascii_tree runs as an explicit call stack, one frame per *)
(* active call, so that recursion depth and changes of the file system     *)
(* made by other processes between two steps can be observed.              *)
(***************************************************************************)
EXTENDS Integers, Sequences, FiniteSets, TLC

VARIABLES
  fs,           \* the file system: absolute path -> [kind, target]
  changes,      \* number of changes other processes made to fs so far
  folder_var,   \* tk.StringVar bound to the folder Entry
  display_box,  \* content of the ScrolledText widget
  saved,        \* the file chosen in the save dialog: [exists, text]
  messagebox,   \* the dialog raised by the handler that ran last
  exception,    \* the exception that left the handler that ran last
  stack,        \* the active build_ascii_tree calls, innermost last
  tree_lines,   \* the value of the build_ascii_tree call that returned last
  selected      \* a folder was selected in browse_folder since the last scan

vars == <<fs, changes, folder_var, display_box, saved, messagebox, exception,
          stack, tree_lines, selected>>

---------------------------------------------------------------------------
(* Bounds of the model *)

\* entries below the root in the file systems the renderer is run on
MaxEntries == 3
\* entries below the root in the file systems of the handler runs
UIEntries == 1
\* entries below the root in the file systems of the link and race runs
SmallEntries == 2
\* frames the model lets the call stack grow to
MaxDepth == 4
\* changes other processes make to the file system during a run
MaxChanges == 1

---------------------------------------------------------------------------
(* Strings *)

SEP == <<47>>
DOT == <<46>>
NEWLINE == <<10>>
LAST_CONNECTOR == <<9492, 9472, 9472, 32>>
TEE_CONNECTOR == <<9500, 9472, 9472, 32>>
SPACES == <<32, 32, 32, 32>>
GUIDE_BAR == <<9474, 32, 32, 32>>
ACCESS_DENIED == <<32, 32, 32, 32, 91, 65, 99, 99, 101, 115, 115, 32,
                   68, 101, 110, 105, 101, 100, 93>>
NO_ITEMS == <<78, 111, 32, 105, 116, 101, 109, 115, 32, 102, 111, 117,
              110, 100, 32, 105, 110, 32, 116, 104, 101, 32, 115, 101,
              108, 101, 99, 116, 101, 100, 32, 102, 111, 108, 100, 101,
              114, 46>>

\* the entry names the file systems draw from: "B", "a" and "a\n"
NameSet == { <<66>>, <<97>>, <<97, 10>> }

\* Python's s < t on str: lexicographic by codepoint, a proper prefix first
StrLess(s, t) ==
  \E k \in 1..(Len(t)) :
     /\ k <= Len(s) + 1
     /\ \A j \in 1..(k - 1) : s[j] = t[j]
     /\ (k = Len(s) + 1 \/ s[k] < t[k])

RECURSIVE Insert(_, _)
Insert(x, s) ==
  IF s = <<>> THEN <<x>>
  ELSE IF StrLess(Head(s), x) THEN <<Head(s)>> \o Insert(x, Tail(s))
  ELSE <<x>> \o s

\* line 36 without the sort: the entries stay in the order of the listing
sorted_as_listed(s) == s

\* sorted(list) of line 36
RECURSIVE sorted(_)
sorted(s) == IF s = <<>> THEN <<>> ELSE Insert(Head(s), sorted(Tail(s)))

\* index of the last "/" of p, 0 when there is none
RECURSIVE rfind_sep(_)
rfind_sep(p) ==
  IF p = <<>> THEN 0
  ELSE IF p[Len(p)] = SEP[1] THEN Len(p)
  ELSE rfind_sep(SubSeq(p, 1, Len(p) - 1))

\* os.path.join(directory, entry) for an entry that does not start with "/"
join(directory, entry) ==
  IF directory = <<>> \/ directory[Len(directory)] = SEP[1]
  THEN directory \o entry
  ELSE directory \o SEP \o entry

\* os.path.basename(p)
basename(p) == SubSeq(p, rfind_sep(p) + 1, Len(p))

\* os.path.dirname(p): the head, without its trailing "/" unless it is the root
dirname(p) ==
  LET head == SubSeq(p, 1, rfind_sep(p))
  IN IF Len(head) > 1 THEN SubSeq(head, 1, Len(head) - 1) ELSE head

\* line 113 without the rstrip
not_stripped(s) == s

\* s.rstrip("\n") of line 113
RECURSIVE rstrip_newline(_)
rstrip_newline(s) ==
  IF s # <<>> /\ s[Len(s)] = NEWLINE[1]
  THEN rstrip_newline(SubSeq(s, 1, Len(s) - 1))
  ELSE s

---------------------------------------------------------------------------
(* The file system *)

ROOT == SEP

Entry(k, t) == [kind |-> k, target |-> t]

\* the path a lookup of p ends at, following links; <<>> when there is none
realpath[p \in Seq(Int)] ==
  IF p \in DOMAIN fs
  THEN IF fs[p].kind = "link" THEN fs[p].target ELSE p
  ELSE IF rfind_sep(p) = 0 THEN <<>>
  ELSE LET d == dirname(p)
           r == realpath[d]
       IN IF r = <<>> \/ r = d THEN <<>> ELSE realpath[join(r, basename(p))]

\* what stat() of p sees
stat(p) == LET r == realpath[p] IN IF r = <<>> THEN "missing" ELSE fs[r].kind

isdir(p) == stat(p) \in {"dir", "locked"}
isfile(p) == stat(p) = "file"

\* the names os.listdir(directory) returns, as a set
children(directory) ==
  LET r == realpath[directory]
  IN { basename(q) : q \in { x \in DOMAIN fs : x # ROOT /\ dirname(x) = r } }

\* the orders os.listdir may return a set of names in
Orders(S) ==
  { s \in [1..Cardinality(S) -> S] : \A i, j \in 1..Cardinality(S) : i # j => s[i] # s[j] }

\* directory a is d or lies above d
IsAncestorOrSelf(a, d) ==
  \/ a = d
  \/ a = ROOT
  \/ Len(d) > Len(a) /\ SubSeq(d, 1, Len(a) + 1) = a \o SEP

\* the file systems one more entry makes of f; a link points at the directory
\* it lies in or at one above it
AddEntry(f, kinds) ==
  { f @@ (join(d, n) :> Entry(k, t)) :
      <<d, n, k, t>> \in
        { x \in { y \in DOMAIN f : f[y].kind \in {"dir", "locked"} }
                \X NameSet \X kinds \X (DOMAIN f \cup {<<>>}) :
            /\ join(x[1], x[2]) \notin DOMAIN f
            /\ IF x[3] = "link"
               THEN /\ x[4] # <<>>
                    /\ f[x[4]].kind = "dir"
                    /\ IsAncestorOrSelf(x[4], x[1])
               ELSE x[4] = <<>> } }

\* fs is a file system of at most n entries below f
RECURSIVE Grown(_, _, _)
Grown(f, n, kinds) ==
  IF n = 0 THEN fs = f
  ELSE \E g \in {f} \cup AddEntry(f, kinds) : Grown(g, n - 1, kinds)

\* a listable root directory with nothing below it
EmptyRoot == (ROOT :> Entry("dir", <<>>))

PlainKinds == {"dir", "locked", "file", "other"}
LinkKinds == {"dir", "file", "link"}
RaceKinds == {"dir", "file"}

---------------------------------------------------------------------------
(* build_ascii_tree, one frame per call *)

Line(text, path, tag) == [text |-> text, path |-> path, tag |-> tag]

Texts(lines) == [k \in 1..Len(lines) |-> lines[k].text]

\* the frame of a call that has not run yet: the parameters of line 5
Frame(directory, prefix, is_last, is_root) ==
  [directory |-> directory, prefix |-> prefix, is_last |-> is_last,
   is_root |-> is_root, pc |-> "start", lines |-> <<>>,
   dirs |-> <<>>, files |-> <<>>, combined |-> <<>>, i |-> 0]

Top == stack[Len(stack)]
Callers == SubSeq(stack, 1, Len(stack) - 1)

\* lines 18 to 32: the line of the directory itself
own_line(fr) ==
  LET name == IF fr.is_root THEN DOT ELSE basename(fr.directory)
      connector == IF fr.is_last THEN LAST_CONNECTOR ELSE TEE_CONNECTOR
  IN IF fr.is_root
     THEN Line(name, fr.directory, "root")
     ELSE Line(fr.prefix \o connector \o name, fr.directory, "dir")

\* line 39 without the prefix
denied_line_unprefixed(fr) == Line(ACCESS_DENIED, fr.directory, "denied")

\* line 39
denied_line(fr) == Line(fr.prefix \o ACCESS_DENIED, fr.directory, "denied")

\* lines 43 to 47
partition_dirs(directory, entries) ==
  LET is_d(e) == isdir(join(directory, e)) IN SelectSeq(entries, is_d)

partition_files(directory, entries) ==
  LET is_f(e) == isfile(join(directory, e)) IN SelectSeq(entries, is_f)

\* line 47 with the groups the other way round
combine_files_first(dirs, files) == files \o dirs

\* line 47
combine(dirs, files) == dirs \o files

\* line 54 with the index compared one too far
child_is_last_never(fr) == fr.i = Len(fr.combined)

\* line 54
child_is_last(fr) == fr.i = Len(fr.combined) - 1

\* lines 57 to 62 with the two units exchanged
next_prefix_exchanged(fr) ==
  IF fr.is_root THEN <<>>
  ELSE fr.prefix \o (IF fr.is_last THEN GUIDE_BAR ELSE SPACES)

\* lines 57 to 62
next_prefix(fr) ==
  IF fr.is_root THEN <<>>
  ELSE fr.prefix \o (IF fr.is_last THEN SPACES ELSE GUIDE_BAR)

\* line 51 with the directory itself in place of the entry
entry_path_of_directory(fr) == fr.directory

\* line 51
entry_path(fr) == join(fr.directory, fr.combined[fr.i + 1])

\* lines 74 and 75
file_line(fr) ==
  LET entry == fr.combined[fr.i + 1]
      file_connector == IF child_is_last(fr) THEN LAST_CONNECTOR ELSE TEE_CONNECTOR
  IN Line(next_prefix(fr) \o file_connector \o entry, entry_path(fr), "file")

\* lines 98 to 103: what scan_and_display inserts into the cleared widget
RECURSIVE inserted(_)
inserted(lines) ==
  IF lines = <<>> THEN <<>>
  ELSE lines[1].text \o NEWLINE \o inserted(Tail(lines))

display_of(lines) == IF lines # <<>> THEN inserted(lines) ELSE NO_ITEMS

\* lines 66 to 71 with the returned lines put before the caller's
Return_prepended(lines) ==
  IF Len(stack) = 1
  THEN /\ stack' = <<>>
       /\ tree_lines' = [root |-> Top.directory, lines |-> lines]
       /\ display_box' = display_of(lines)
  ELSE /\ stack' = [Callers EXCEPT ![Len(stack) - 1] =
                      [@ EXCEPT !.lines = lines \o @, !.i = @ + 1]]
       /\ UNCHANGED <<tree_lines, display_box>>

\* a call returns lines: to the call that made it (lines 66 to 71), or to
\* scan_and_display (lines 97 to 103)
Return(lines) ==
  IF Len(stack) = 1
  THEN /\ stack' = <<>>
       /\ tree_lines' = [root |-> Top.directory, lines |-> lines]
       /\ display_box' = display_of(lines)
  ELSE /\ stack' = [Callers EXCEPT ![Len(stack) - 1] =
                      [@ EXCEPT !.lines = @ \o lines, !.i = @ + 1]]
       /\ UNCHANGED <<tree_lines, display_box>>

\* an exception other than PermissionError leaves every active call and the handler
Raise(name) ==
  /\ stack' = <<>>
  /\ exception' = name
  /\ UNCHANGED <<tree_lines, display_box>>

\* lines 15 to 47: the directory's own line, the listing and the partition
build_ascii_tree_enter ==
  /\ stack # <<>>
  /\ Top.pc = "start"
  /\ LET fr == Top
         lines == <<own_line(fr)>>
     IN IF stat(fr.directory) \notin {"dir", "locked"}
        THEN Raise(IF stat(fr.directory) = "missing"
                   THEN "FileNotFoundError" ELSE "NotADirectoryError")
        ELSE /\ UNCHANGED exception
             /\ IF stat(fr.directory) = "locked"
                THEN Return(lines \o <<denied_line(fr)>>)
                ELSE \E listing \in Orders(children(fr.directory)) :
                       LET entries == sorted(listing)
                           dirs == partition_dirs(fr.directory, entries)
                           files == partition_files(fr.directory, entries)
                       IN /\ stack' = [stack EXCEPT ![Len(stack)] =
                                 [fr EXCEPT !.pc = "loop", !.lines = lines,
                                            !.dirs = dirs, !.files = files,
                                            !.combined = combine(dirs, files), !.i = 0]]
                          /\ UNCHANGED <<tree_lines, display_box>>
  /\ UNCHANGED <<fs, changes, folder_var, saved, messagebox, selected>>

\* lines 50 to 75: one iteration of the loop over combined
build_ascii_tree_visit ==
  /\ stack # <<>>
  /\ Top.pc = "loop"
  /\ Top.i < Len(Top.combined)
  /\ LET fr == Top
     IN IF isdir(entry_path(fr))
        THEN /\ Len(stack) < MaxDepth
             /\ stack' = Append(stack,
                  Frame(entry_path(fr), next_prefix(fr), child_is_last(fr), FALSE))
        ELSE stack' = [stack EXCEPT ![Len(stack)] =
               [fr EXCEPT !.lines = Append(@, file_line(fr)), !.i = @ + 1]]
  /\ UNCHANGED <<fs, changes, folder_var, display_box, saved, messagebox,
                 exception, tree_lines, selected>>

\* line 77, after the last iteration
build_ascii_tree_return ==
  /\ stack # <<>>
  /\ Top.pc = "loop"
  /\ Top.i = Len(Top.combined)
  /\ Return(Top.lines)
  /\ UNCHANGED <<fs, changes, folder_var, saved, messagebox, exception, selected>>

---------------------------------------------------------------------------
(* The handlers *)

NoDialog == "none"
InvalidFolder == "showerror: Please select a valid folder path."
SaveSucceeded == "showinfo: Folder tree saved to"
SaveFailed == "showerror: Failed to save file"

NoLines == [root |-> <<>>, lines |-> <<>>]

\* line 89 without the os.path.isdir test
invalid_folder_if_empty(folder_path) == folder_path = <<>>

\* line 89
invalid_folder(folder_path) == folder_path = <<>> \/ ~isdir(folder_path)

\* lines 86 to 97: the check of the folder, and the call of build_ascii_tree
scan_and_display ==
  /\ stack = <<>>
  /\ exception' = "none"
  /\ IF invalid_folder(folder_var)
     THEN /\ messagebox' = InvalidFolder
          /\ UNCHANGED <<display_box, stack, selected>>
     ELSE /\ messagebox' = NoDialog
          /\ display_box' = <<>>
          /\ stack' = <<Frame(folder_var, <<>>, TRUE, TRUE)>>
          /\ selected' = FALSE
  /\ UNCHANGED <<fs, changes, folder_var, saved, tree_lines>>

\* lines 79 to 84
browse_folder ==
  /\ stack = <<>>
  /\ \E folder_selected \in {<<>>} \cup { p \in DOMAIN fs : isdir(p) } :
       IF folder_selected # <<>>
       THEN /\ folder_var' = folder_selected
            /\ display_box' = <<>>
            /\ selected' = TRUE
       ELSE UNCHANGED <<folder_var, display_box, selected>>
  /\ messagebox' = NoDialog
  /\ exception' = "none"
  /\ UNCHANGED <<fs, changes, saved, stack, tree_lines>>

\* line 134: the Entry widget writes what the user types into folder_var
folder_entry ==
  /\ stack = <<>>
  /\ folder_var' \in ({<<>>} \cup DOMAIN fs \cup { join(ROOT, n) : n \in NameSet })
                      \ {folder_var}
  /\ UNCHANGED <<fs, changes, display_box, saved, messagebox, exception, stack,
                 tree_lines, selected>>

OUT_TXT == <<111>>

\* lines 105 to 119; the write may fail, after open() has truncated the file or before
save_to_file ==
  /\ stack = <<>>
  /\ \E file_path \in {<<>>, OUT_TXT}, written \in BOOLEAN, truncated \in BOOLEAN :
       IF file_path # <<>>
       THEN LET text_content == rstrip_newline(display_box \o NEWLINE)
            IN IF written
               THEN /\ saved' = [exists |-> TRUE, text |-> text_content]
                    /\ messagebox' = SaveSucceeded
               ELSE /\ saved' = IF truncated
                                THEN [exists |-> TRUE, text |-> <<>>] ELSE saved
                    /\ messagebox' = SaveFailed
       ELSE /\ messagebox' = NoDialog
            /\ UNCHANGED saved
  /\ exception' = "none"
  /\ UNCHANGED <<fs, changes, folder_var, display_box, stack, tree_lines, selected>>

---------------------------------------------------------------------------
(* Other processes *)

\* another process replaces or removes an entry that has nothing below it
fs_change ==
  /\ changes < MaxChanges
  /\ changes' = changes + 1
  /\ \E p \in DOMAIN fs \ {ROOT}, k \in {"dir", "file", "gone"} :
       /\ \A q \in DOMAIN fs : q = ROOT \/ dirname(q) # p
       /\ fs[p].kind # k
       /\ fs' = IF k = "gone"
                THEN [q \in DOMAIN fs \ {p} |-> fs[q]]
                ELSE [fs EXCEPT ![p] = Entry(k, <<>>)]
  /\ UNCHANGED <<folder_var, display_box, saved, messagebox, exception, stack,
                 tree_lines, selected>>

---------------------------------------------------------------------------
(* The renderer on a file system nothing else changes *)

Quiet ==
  /\ changes = 0
  /\ display_box = <<>>
  /\ saved = [exists |-> FALSE, text |-> <<>>]
  /\ messagebox = NoDialog
  /\ exception = "none"
  /\ stack = <<>>
  /\ tree_lines = NoLines
  /\ selected = FALSE

Init ==
  /\ Grown(EmptyRoot, MaxEntries, PlainKinds)
  /\ folder_var = ROOT
  /\ Quiet

Next ==
  \/ scan_and_display
  \/ build_ascii_tree_enter
  \/ build_ascii_tree_visit
  \/ build_ascii_tree_return

Spec == Init /\ [][Next]_vars

(* The handlers, in any order *)

InitUI ==
  /\ Grown(EmptyRoot, UIEntries, PlainKinds)
  /\ folder_var = <<>>
  /\ Quiet

NextUI ==
  \/ browse_folder
  \/ folder_entry
  \/ scan_and_display
  \/ save_to_file
  \/ build_ascii_tree_enter
  \/ build_ascii_tree_visit
  \/ build_ascii_tree_return

SpecUI == InitUI /\ [][NextUI]_vars

(* The renderer on file systems with links to ancestor directories; a call *)
(* that has started keeps running                                           *)

InitLinks ==
  /\ Grown(EmptyRoot, SmallEntries, LinkKinds)
  /\ folder_var = ROOT
  /\ Quiet

Running ==
  \/ build_ascii_tree_enter
  \/ build_ascii_tree_visit
  \/ build_ascii_tree_return

SpecLinks == InitLinks /\ [][Next]_vars /\ WF_vars(Running)

(* The renderer while another process changes the file system *)

InitRace ==
  /\ Grown(EmptyRoot, SmallEntries, RaceKinds)
  /\ folder_var = ROOT
  /\ Quiet

NextRace ==
  \/ Next
  \/ fs_change

SpecRace == InitRace /\ [][NextRace]_vars

---------------------------------------------------------------------------
(* What the claims speak of, read off the file system *)

\* the lines of the call that returned last, once no call is active
Lines == tree_lines.lines
Done == stack = <<>> /\ tree_lines # NoLines

\* the number of directories between the scanned root "/" and p, p included
RECURSIVE Depth(_)
Depth(p) == IF p = ROOT \/ p = <<>> THEN 0 ELSE 1 + Depth(dirname(p))

\* p lies below directory d
Below(d, p) == p # d /\ IsAncestorOrSelf(d, p)

IsDirectory(p) == fs[p].kind \in {"dir", "locked"}
IsPlainFile(p) == fs[p].kind = "file"

\* the entries of p's parent that are a directory or a plain file
Siblings(p) ==
  { q \in DOMAIN fs : /\ q # ROOT
                      /\ dirname(q) = dirname(p)
                      /\ (IsDirectory(q) \/ IsPlainFile(q)) }

\* x stands before its sibling y: directories first, each group by codepoint
Before(x, y) ==
  \/ IsDirectory(x) /\ IsPlainFile(y)
  \/ /\ IsDirectory(x) <=> IsDirectory(y)
     /\ StrLess(basename(x), basename(y))

IsLastSibling(p) == \A q \in Siblings(p) \ {p} : Before(q, p)

\* the entry lines of the output, and the place of an entry's line
EntryLine(k) == Lines[k].tag \in {"dir", "file"}
Places(p) == { k \in 1..Len(Lines) : EntryLine(k) /\ Lines[k].path = p }

\* the text of line k before its connector, its connector, and the rest
PrefixPart(k) == SubSeq(Lines[k].text, 1, 4 * (Depth(Lines[k].path) - 1))
ConnectorPart(k) ==
  SubSeq(Lines[k].text, 4 * Depth(Lines[k].path) - 3, 4 * Depth(Lines[k].path))
NamePart(k) ==
  SubSeq(Lines[k].text, 4 * Depth(Lines[k].path) + 1, Len(Lines[k].text))

\* one unit per ancestor below the root, from the top down
RECURSIVE GuidePrefix(_)
GuidePrefix(p) ==
  IF Depth(p) <= 1 THEN <<>>
  ELSE GuidePrefix(dirname(p))
         \o (IF IsLastSibling(dirname(p)) THEN SPACES ELSE GUIDE_BAR)

\* C1: the children of every listed directory appear once each, the
\* sub-directories in ascending codepoint order of name and then the plain
\* files in ascending codepoint order of name, whatever order the listing
\* came in; a sub-directory stands before every file of its parent.
C1_DirsThenFilesSorted ==
  Done =>
    /\ \A k \in 1..Len(Lines) :
         (Lines[k].tag \in {"root", "dir"} /\ fs[Lines[k].path].kind = "dir")
           => \A q \in DOMAIN fs :
                (q # ROOT /\ dirname(q) = Lines[k].path
                   /\ (IsDirectory(q) \/ IsPlainFile(q)))
                  => /\ Cardinality(Places(q)) = 1
                     /\ \A m \in Places(q) :
                          /\ m > k
                          /\ Lines[m].tag = (IF IsDirectory(q) THEN "dir" ELSE "file")
                          /\ NamePart(m) = basename(q)
    /\ \A k, m \in 1..Len(Lines) :
         (/\ EntryLine(k) /\ EntryLine(m) /\ k # m
          /\ dirname(Lines[k].path) = dirname(Lines[m].path))
           => (k < m <=> Before(Lines[k].path, Lines[m].path))

\* a directory whose name sorts after a file of the same parent is listed
\* first, next to a second directory it is sorted with
C1_Witness ==
  /\ Done
  /\ \E k, m, n \in 1..Len(Lines) :
       /\ k < m /\ m < n
       /\ Lines[k].tag = "dir" /\ Lines[m].tag = "dir" /\ Lines[n].tag = "file"
       /\ dirname(Lines[k].path) = dirname(Lines[n].path)
       /\ dirname(Lines[m].path) = dirname(Lines[n].path)
       /\ StrLess(basename(Lines[n].path), basename(Lines[m].path))

\* C2: the output is a pre-order: the lines under a directory (those of its
\* descendants, and the placeholder of a directory that could not be
\* listed) are exactly the block that starts right after the directory's
\* own line, so they end before the line of its next sibling.
C2_PreOrder ==
  Done =>
    \A k \in 1..Len(Lines) :
      Lines[k].tag \in {"root", "dir"} =>
        LET under == { m \in 1..Len(Lines) :
                         \/ Below(Lines[k].path, Lines[m].path)
                         \/ Lines[m].tag = "denied"
                              /\ IsAncestorOrSelf(Lines[k].path, Lines[m].path) }
        IN under = (k + 1)..(k + Cardinality(under))

\* a directory with a file below it, followed by a sibling of the directory
C2_Witness ==
  /\ Done
  /\ \E k \in 2..Len(Lines) :
       /\ Lines[k].tag = "dir"
       /\ Len(Lines) >= k + 2
       /\ Below(Lines[k].path, Lines[k + 1].path)
       /\ Lines[k + 1].tag = "file"
       /\ dirname(Lines[k + 2].path) = dirname(Lines[k].path)

\* C3: the first line of a root call is exactly ".", and every other entry
\* line carries the connector of a last sibling exactly when the entry is
\* the last of its parent's directories-then-files list, in which entries
\* that are neither are not counted, and the other connector otherwise.
C3_Connectors ==
  Done =>
    /\ Lines[1].text = DOT
    /\ Lines[1].tag = "root"
    /\ \A k \in 2..Len(Lines) :
         /\ Lines[k].tag # "root"
         /\ EntryLine(k) =>
              ConnectorPart(k) = (IF IsLastSibling(Lines[k].path)
                                  THEN LAST_CONNECTOR ELSE TEE_CONNECTOR)

\* a file is the last counted entry although an entry that is neither a
\* file nor a directory follows it by name, beside an entry that is not last
C3_Witness ==
  /\ Done
  /\ \E k, m \in 2..Len(Lines) :
       /\ ConnectorPart(k) = TEE_CONNECTOR
       /\ ConnectorPart(m) = LAST_CONNECTOR
       /\ Lines[m].tag = "file"
       /\ \E q \in DOMAIN fs :
            /\ q # ROOT
            /\ dirname(q) = dirname(Lines[m].path)
            /\ fs[q].kind = "other"
            /\ StrLess(basename(Lines[m].path), basename(q))

\* C4: the text before the connector of an entry line is, over the entry's
\* ancestors below the root from the top down, four spaces for an ancestor
\* that is the last sibling at its level and a guide bar for one that is
\* not; the children of the root have no prefix.
C4_Prefix ==
  Done =>
    \A k \in 2..Len(Lines) :
      EntryLine(k) =>
        /\ Len(Lines[k].text) > 4 * Depth(Lines[k].path)
        /\ PrefixPart(k) = GuidePrefix(Lines[k].path)

\* a guide bar under a directory that has a later sibling, and four spaces
\* under one that has none
C4_Witness ==
  /\ Done
  /\ \E k \in 2..Len(Lines) :
       /\ EntryLine(k)
       /\ PrefixPart(k) = GUIDE_BAR
       /\ ~IsLastSibling(dirname(Lines[k].path))

\* C5: a sub-directory whose listing is refused has its own line, then one
\* line of its prefix and "    [Access Denied]", and nothing beneath it; no
\* exception leaves the call, and each later sibling has the line it has
\* when the listing succeeds with no children.
C5_AccessDenied ==
  /\ exception = "none"
  /\ Done =>
       \A k \in 2..Len(Lines) :
         (Lines[k].tag = "dir" /\ fs[Lines[k].path].kind = "locked") =>
           LET d == Lines[k].path
           IN /\ k + 1 <= Len(Lines)
              /\ Lines[k + 1].tag = "denied"
              /\ Lines[k + 1].text = GuidePrefix(d) \o SPACES
                   \o SubSeq(ACCESS_DENIED, 5, Len(ACCESS_DENIED))
              /\ \A m \in 1..Len(Lines) :
                   /\ ~Below(d, Lines[m].path)
                   /\ (Lines[m].tag = "denied" /\ Lines[m].path = d) => m = k + 1
              /\ \A q \in Siblings(d) :
                   Before(d, q) =>
                     /\ Cardinality(Places(q)) = 1
                     /\ \A m \in Places(q) :
                          /\ m > k + 1
                          /\ Lines[m].text =
                               GuidePrefix(q)
                                 \o (IF IsLastSibling(q)
                                     THEN LAST_CONNECTOR ELSE TEE_CONNECTOR)
                                 \o basename(q)
              /\ (k + 2 <= Len(Lines) /\ ~IsLastSibling(d)) =>
                   /\ Lines[k + 2].path \in Siblings(d)
                   /\ Before(d, Lines[k + 2].path)

\* a refused sub-directory that holds an entry and has a later sibling
C5_Witness ==
  /\ Done
  /\ \E k \in 2..Len(Lines) :
       /\ Lines[k].tag = "dir"
       /\ fs[Lines[k].path].kind = "locked"
       /\ \E q \in DOMAIN fs : Below(Lines[k].path, q)
       /\ k + 2 <= Len(Lines)
       /\ EntryLine(k + 2)

\* C9: a call on the root of the call before it, with the file system as
\* it was, returns the lines that call returned, whatever order the
\* listings come in.
C9_SameLinesAgain ==
  [][(/\ stack # <<>>
      /\ stack' = <<>>
      /\ tree_lines # NoLines
      /\ tree_lines'.root = tree_lines.root
      /\ fs' = fs)
       => Texts(tree_lines'.lines) = Texts(tree_lines.lines)]_vars

\* a second call is about to return what the first returned, for a
\* directory of two entries or more
C9_Witness ==
  /\ tree_lines # NoLines
  /\ Len(stack) = 1
  /\ Top.pc = "loop"
  /\ Top.i = Len(Top.combined)
  /\ Len(Top.combined) >= 2
  /\ Top.directory = tree_lines.root
  /\ Texts(Top.lines) = Texts(tree_lines.lines)

\* the text of the lines joined with "\n"
RECURSIVE Joined(_)
Joined(texts) ==
  IF texts = <<>> THEN <<>>
  ELSE IF Len(texts) = 1 THEN texts[1]
  ELSE texts[1] \o NEWLINE \o Joined(Tail(texts))

\* s is t without the newline characters t ends in
WithoutTrailingNewlines(s, t) ==
  /\ Len(s) <= Len(t)
  /\ s = SubSeq(t, 1, Len(s))
  /\ \A j \in (Len(s) + 1)..Len(t) : t[j] = NEWLINE[1]
  /\ s = <<>> \/ s[Len(s)] # NEWLINE[1]

RootInvalid ==
  \/ folder_var = <<>>
  \/ folder_var \notin DOMAIN fs
  \/ ~IsDirectory(folder_var)

\* C8: scan_and_display on a folder that is empty, missing or no directory
\* raises the error dialog, starts no call of build_ascii_tree and leaves
\* the displayed text as it was.
C8_InvalidRootRejected ==
  [][(scan_and_display /\ RootInvalid)
       => /\ messagebox' = InvalidFolder
          /\ stack' = <<>>
          /\ tree_lines' = tree_lines
          /\ display_box' = display_box]_vars

\* the error dialog is up for the path of a plain file, over the tree of
\* an earlier scan
C8_Witness ==
  /\ messagebox = InvalidFolder
  /\ folder_var \in DOMAIN fs
  /\ IsPlainFile(folder_var)
  /\ tree_lines # NoLines
  /\ display_box = inserted(Lines)

\* the levels of directories in the file system, the root being the first
DirectoryLevels ==
  LET deep == { Depth(p) : p \in { q \in DOMAIN fs :
                                     fs[q].kind \in {"dir", "locked", "link"} } }
  IN 1 + CHOOSE n \in deep : \A m \in deep : m <= n

NoAncestorLink == \A p \in DOMAIN fs : fs[p].kind # "link"

\* C6 as stated: on every file system, one with an entry that refers to an
\* ancestor directory included, the calls nest no deeper than the
\* directory tree.
C6_DepthWithinTree == Len(stack) <= DirectoryLevels

\* C6, amended: on a file system in which no entry that classifies as a
\* directory refers to one of its own ancestors, the calls nest no deeper
\* than the directory tree and a call that has started returns its lines.
C6_TreeTerminates ==
  /\ [](NoAncestorLink => Len(stack) <= DirectoryLevels)
  /\ (NoAncestorLink /\ stack # <<>>) ~> (NoAncestorLink /\ Done)

\* on a tree of three levels the calls nest three deep
C6_Witness ==
  /\ NoAncestorLink
  /\ DirectoryLevels = 3
  /\ Len(stack) = 3

\* C10 as stated: an entry the partition put with the directories is
\* recursed into and one it put with the files yields one file line,
\* whatever the file system says when the loop reaches the entry.
C10_PartitionDecides ==
  [][(/\ stack # <<>>
      /\ Top.pc = "loop"
      /\ Top.i < Len(Top.combined)
      /\ stack' # stack)
       => IF Top.i < Len(Top.dirs)
          THEN /\ Len(stack') = Len(stack) + 1
               /\ stack'[Len(stack')].directory
                    = join(Top.directory, Top.dirs[Top.i + 1])
          ELSE /\ Len(stack') = Len(stack)
               /\ stack'[Len(stack)].lines
                    = Append(Top.lines, stack'[Len(stack)].lines[Len(Top.lines) + 1])
               /\ stack'[Len(stack)].lines[Len(Top.lines) + 1].tag = "file"]_vars

====
